---- MODULE Spec2Model ----
(***************************************************************************)
(* Stack lifecycle controller of src/1-auto/app.py: the four Flask         *)
(* handlers (list, create, get, delete) serving concurrent requests        *)
(* against one Pulumi project.  Each handler is split at its engine calls  *)
(* (create_stack, set_config, up, select_stack, outputs, destroy,          *)
(* remove_stack, list_stacks), which is where requests interleave; up and  *)
(* destroy are further split into taking the lock, one step per resource,  *)
(* and returning or raising.                                               *)
(*                                                                         *)
(* The engine is the Pulumi automation API the handlers call.  What the    *)
(* handlers rely on, and what the model gives it:                          *)
(*   - create_stack raises StackAlreadyExistsError for a name in use;      *)
(*   - select_stack, set_config, outputs, up, destroy and remove_stack     *)
(*     raise StackNotFoundError when the name has no stack;                *)
(*   - up, destroy and remove_stack raise ConcurrentUpdateError while      *)
(*     another update of the stack is in progress; outputs does not;       *)
(*   - up and destroy can raise part way and leave what they did;          *)
(*   - remove_stack refuses a stack that still has resources;              *)
(*   - a stack has a website_url output from the end of a successful up    *)
(*     to the end of a successful destroy.                                 *)
(* The username of a create only reaches the content of index.html and is  *)
(* left out.                                                               *)
(***************************************************************************)
EXTENDS Integers, FiniteSets, Sequences, TLC

\* ---- bounds -------------------------------------------------------------
\* requests the controller serves at the same time
MaxConc == 2
\* resources one stack's program declares (the bucket is the first)
NumRes == 2

Names == {"a", "b"}
\* the name the concurrent requests of Spec are issued for
Contended == {"a"}
Urls == {"u1", "u2"}
Reqs == 1..MaxConc
Kinds == {"list", "create", "get", "delete"}

None == "none"
NoReq == 0

VARIABLES
  engine,    \* name -> the engine's record of the stack of that name
  req,       \* request slot -> handler position, response and bookkeeping
  lastUrl,   \* history: name -> url of the last successful create, until a delete acts on it
  life,      \* history: name -> "never" before the first create_stack, "deleted" after
             \*          a successful delete until the next create_stack, "torn" after the
             \*          controller died between destroy and remove_stack of a delete,
             \*          the stack being as destroy left it, until the next up or
             \*          removal of the stack, else "used"
  managed,   \* history: names whose create returned success, not since deleted with success
  entered,   \* history: names whose create_stack succeeded, not since removed
  halfGone   \* history: names with a destroy that raised part way since their create_stack

vars == <<engine, req, lastUrl, life, managed, entered, halfGone>>
hvars == <<lastUrl, life, managed, entered, halfGone>>

NoStack ==
  [exists |-> FALSE, config |-> None, resources |-> 0,
   endpoint |-> None, outputs |-> None, lock |-> NoReq]

\* kind, name, pc: the handler and where it stands; status, url, ids, err:
\* its response.  The rest is bookkeeping about the request's run:
\*   calls   the engine calls it made, in order
\*   pre     the engine as it was before the step that answered
\*   ovC/ovD (create, delete) create/delete requests on the same name that
\*           ran while it ran
\*   peer    (create, delete) what requests of its own kind on its name
\*           answered while it ran
\*   reuse   (create) its create_stack took a name a delete had freed
\*   had     (create) the name had a stack when it called create_stack
\*   seen0   (delete) the name had a stack on arrival
\*   busy    (delete) the stack was locked when it called destroy
\*   redo    (delete) on arrival the name was as a delete that died between
\*           destroy and remove_stack had left it
IdleReq ==
  [kind |-> None, name |-> None, pc |-> "idle", status |-> 0, url |-> None,
   ids |-> {}, err |-> None, calls |-> <<>>, pre |-> <<>>,
   ovC |-> 0, ovD |-> 0, peer |-> None, reuse |-> FALSE, had |-> FALSE,
   seen0 |-> FALSE, busy |-> FALSE, redo |-> FALSE]

Running(r) == req[r].pc \notin {"idle", "done"}
Done(r) == req[r].pc = "done"

\* An answered request is visible in the state its answer produces; at the
\* next step its slot is free for the next arrival.
Kept == [q \in Reqs |-> IF Done(q) THEN IdleReq ELSE req[q]]

\* overlap counters saturate: a delete tells one overlapping delete from
\* several, every other count only tells none from some
Sat(k, what, c) ==
  IF k = "delete" /\ what = "delete" THEN (IF c < 2 THEN c ELSE 2)
  ELSE (IF c < 1 THEN c ELSE 1)

\* The bookkeeping of a run keeps no detail it has no use for: a delete that
\* found no stack on arrival, or overlapped a create or several deletes, and
\* a create that overlapped a delete, are all recorded the same way; a create
\* that overlapped another create is not recorded as reusing a freed name.
Tidy(q) ==
  IF \/ (q.kind = "delete" /\ (~q.seen0 \/ q.ovC > 0 \/ q.ovD > 1))
     \/ (q.kind = "create" /\ q.ovD > 0)
    THEN [q EXCEPT !.ovC = 1, !.ovD = IF q.kind = "delete" THEN 2 ELSE 1,
                   !.peer = "out", !.reuse = FALSE, !.seen0 = FALSE,
                   !.redo = FALSE]
  ELSE IF q.kind = "create" /\ q.ovC > 0 THEN [q EXCEPT !.reuse = FALSE]
  ELSE q

\* ---- the handlers' except clauses ----------------------------------------
\* mutation: a duplicate create folded into success
CreateStatusIdempotent(err) ==
  IF err = "ok" \/ err = "AlreadyExists" THEN 200 ELSE 500

\* mutation: a failure other than the duplicate name is answered as success
CreateStatusSwallows(err) ==
  IF err = "AlreadyExists" THEN 409 ELSE 200

CreateStatus(err) ==
  IF err = "ok" THEN 200
  ELSE IF err = "AlreadyExists" THEN 409
  ELSE 500

\* mutation: no except clause for StackNotFoundError
GetStatusNoNotFound(err) ==
  IF err = "ok" THEN 200 ELSE 500

GetStatus(err) ==
  IF err = "ok" THEN 200
  ELSE IF err = "NotFound" THEN 404
  ELSE 500

\* mutation: deleting a stack that is not there counted as success
DeleteStatusIdempotent(err) ==
  IF err = "ok" \/ err = "NotFound" THEN 200
  ELSE IF err = "Conflict" THEN 409
  ELSE 500

\* mutation: no except clause for ConcurrentUpdateError
DeleteStatusNoConflict(err) ==
  IF err = "ok" THEN 200
  ELSE IF err = "NotFound" THEN 404
  ELSE 500

DeleteStatus(err) ==
  IF err = "ok" THEN 200
  ELSE IF err = "NotFound" THEN 404
  ELSE IF err = "Conflict" THEN 409
  ELSE 500

ListStatus(err) ==
  IF err = "ok" THEN 200 ELSE 500

\* ---- the engine's answer to each call ------------------------------------
\* mutation: the stack is selected or created, whichever applies
CreateStackErrUpsert(n) == "ok"

\* mutation: the project holds one stack at a time
CreateStackErrOnePerProject(n) ==
  IF \E m \in Names : engine[m].exists THEN "AlreadyExists" ELSE "ok"

\* auto.create_stack: rejected when the project already has the name
CreateStackErr(n) ==
  IF engine[n].exists THEN "AlreadyExists" ELSE "ok"

\* stack.set_config: needs the stack
SetConfigErr(n) ==
  IF engine[n].exists THEN "ok" ELSE "NotFound"

\* mutation: updates do not take the stack's lock into account
UpdateErrNoLock(n) ==
  IF ~engine[n].exists THEN "NotFound" ELSE "ok"

\* stack.up / stack.destroy: need the stack and its update lock
UpdateErr(n) ==
  IF ~engine[n].exists THEN "NotFound"
  ELSE IF engine[n].lock # NoReq THEN "Conflict"
  ELSE "ok"

\* auto.select_stack: needs the stack
SelectErr(n) ==
  IF engine[n].exists THEN "ok" ELSE "NotFound"

\* mutation: a stack without website_url is reported as no stack
OutputsErrMissingIsNotFound(n) ==
  IF ~engine[n].exists \/ engine[n].outputs = None THEN "NotFound" ELSE "ok"

\* stack.outputs() followed by outs["website_url"]
OutputsErr(n) ==
  IF ~engine[n].exists THEN "NotFound"
  ELSE IF engine[n].outputs = None THEN "KeyError"
  ELSE "ok"

\* mutation: the entry is removed by force, whatever the stack still has
RemoveErrForce(n) ==
  IF ~engine[n].exists THEN "NotFound"
  ELSE IF engine[n].lock # NoReq THEN "Conflict"
  ELSE "ok"

\* workspace.remove_stack: needs the stack, its lock, and no resources left
RemoveErr(n) ==
  IF ~engine[n].exists THEN "NotFound"
  ELSE IF engine[n].lock # NoReq THEN "Conflict"
  ELSE IF engine[n].resources > 0 THEN "StackHasResources"
  ELSE "ok"

\* mutation: only the stacks that have a website_url are listed
ListedDeployed == {n \in Names : engine[n].exists /\ engine[n].outputs # None}

\* ws.list_stacks(): the names that have a bookkeeping entry
ListedNames == {n \in Names : engine[n].exists}

\* ---- request bookkeeping -------------------------------------------------
\* request r made `call` and goes on to pc
Called(r, call, pc) ==
  [Kept EXCEPT ![r] = [req[r] EXCEPT !.pc = pc, !.calls = Append(@, call)]]

\* what the answer of request r leaves in a running request q of the same
\* kind on the same name: "ok" once some such request returned success, "rej"
\* while all of them were turned away (409, or 404 for a delete), "bad" when
\* one ended otherwise, and "out" when r died or overlapped a request of the
\* other mutating kind
Noted(q, r, status) ==
  IF /\ q # r
     /\ Running(q)
     /\ req[q].kind = req[r].kind
     /\ req[q].name = req[r].name
     /\ req[r].kind \in {"create", "delete"}
  THEN LET mixed == IF req[r].kind = "create" THEN req[r].ovD > 0 ELSE req[r].ovC > 0
           turned == status = 409 \/ (req[r].kind = "delete" /\ status = 404)
       IN Tidy([req[q] EXCEPT !.peer =
                  IF mixed \/ status = 0 \/ @ = "out" THEN "out"
                  ELSE IF status = 200 \/ @ = "ok" THEN "ok"
                  ELSE IF turned /\ @ \in {None, "rej"} THEN "rej"
                  ELSE "bad"])
  ELSE Kept[q]

\* request r answers with status (and url, ids) after `calls`
Replied(r, calls, status, err, url, ids) ==
  [q \in Reqs |->
     IF q = r
       THEN [req[r] EXCEPT !.pc = "done", !.calls = calls, !.status = status,
                           !.err = err, !.url = url, !.ids = ids, !.pre = engine]
     ELSE Noted(q, r, status)]

Init ==
  /\ engine = [n \in Names |-> NoStack]
  /\ req = [r \in Reqs |-> IdleReq]
  /\ lastUrl = [n \in Names |-> None]
  /\ life = [n \in Names |-> "never"]
  /\ managed = {}
  /\ entered = {}
  /\ halfGone = {}

\* A create, get or delete request for name n arrives and Flask dispatches
\* it to its handler; it takes the first free slot.
Start(r, k, n) ==
  /\ Kept[r].pc = "idle"
  /\ \A q \in Reqs : q < r => Kept[q].pc # "idle"
  /\ LET on == {q \in Reqs : Running(q) /\ req[q].name = n}
         me == [IdleReq EXCEPT
                  !.kind = k, !.name = n,
                  !.pc = IF k = "create" THEN "create_stack" ELSE "select_stack",
                  !.ovC = IF k = "get" THEN 0
                          ELSE Sat(k, "create", Cardinality({q \in on : req[q].kind = "create"})),
                  !.ovD = IF k = "get" THEN 0
                          ELSE Sat(k, "delete", Cardinality({q \in on : req[q].kind = "delete"})),
                  !.seen0 = (k = "delete" /\ engine[n].exists),
                  !.redo = (k = "delete" /\ life[n] = "torn")]
     IN req' = [q \in Reqs |->
                  IF q = r THEN Tidy(me)
                  ELSE IF q \in on /\ k = "create" /\ req[q].kind # "get"
                    THEN Tidy([req[q] EXCEPT !.ovC = Sat(req[q].kind, k, @ + 1)])
                  ELSE IF q \in on /\ k = "delete" /\ req[q].kind # "get"
                    THEN Tidy([req[q] EXCEPT !.ovD = Sat(req[q].kind, k, @ + 1)])
                  ELSE Kept[q]]
  /\ UNCHANGED <<engine, hvars>>

\* GET /sites arrives.
StartList(r) ==
  /\ Kept[r].pc = "idle"
  /\ \A q \in Reqs : q < r => Kept[q].pc # "idle"
  /\ req' = [Kept EXCEPT ![r] = [IdleReq EXCEPT !.kind = "list", !.pc = "list_stacks"]]
  /\ UNCHANGED <<engine, hvars>>

\* ---- list_handler --------------------------------------------------------
ListStacks(r) ==
  /\ req[r].pc = "list_stacks"
  /\ req' = Replied(r, <<"list_stacks">>, ListStatus("ok"), "ok", None, ListedNames)
  /\ UNCHANGED <<engine, hvars>>

\* ---- create_handler ------------------------------------------------------
CreateStack(r) ==
  LET n == req[r].name
      e == CreateStackErr(n)
  IN /\ req[r].pc = "create_stack"
     /\ IF e = "ok"
          THEN /\ engine' = [engine EXCEPT ![n] = [NoStack EXCEPT !.exists = TRUE]]
               /\ req' = [Called(r, "create_stack", "set_config")
                            EXCEPT ![r] = Tidy([@ EXCEPT !.reuse = (life[n] = "deleted"),
                                                         !.had = engine[n].exists])]
               /\ life' = [life EXCEPT ![n] = "used"]
               /\ entered' = entered \cup {n}
               /\ halfGone' = halfGone \ {n}
               /\ UNCHANGED <<lastUrl, managed>>
          ELSE /\ req' = [Replied(r, <<"create_stack">>, CreateStatus(e), e, None, {})
                            EXCEPT ![r].had = engine[n].exists]
               /\ UNCHANGED <<engine, hvars>>

SetConfig(r) ==
  LET n == req[r].name
      e == SetConfigErr(n)
  IN /\ req[r].pc = "set_config"
     /\ IF e = "ok"
          THEN /\ engine' = [engine EXCEPT ![n].config = "us-west-2"]
               /\ req' = Called(r, "set_config", "up")
          ELSE /\ req' = Replied(r, Append(req[r].calls, "set_config"),
                                 CreateStatus(e), e, None, {})
               /\ UNCHANGED engine
     /\ UNCHANGED hvars

\* stack.up starts: the engine takes the stack's lock or raises
UpBegin(r) ==
  LET n == req[r].name
      e == UpdateErr(n)
  IN /\ req[r].pc = "up"
     /\ IF e = "ok"
          THEN /\ engine' = [engine EXCEPT ![n].lock = r]
               /\ req' = Called(r, "up", "applying")
               /\ life' = [life EXCEPT ![n] = IF @ = "torn" THEN "used" ELSE @]
          ELSE /\ req' = Replied(r, Append(req[r].calls, "up"),
                                 CreateStatus(e), e, None, {})
               /\ UNCHANGED <<engine, life>>
     /\ UNCHANGED <<lastUrl, managed, entered, halfGone>>

\* stack.up creates the next resource of create_pulumi_program; the bucket
\* comes first and the engine picks its name, hence its website endpoint
UpApply(r) ==
  LET n == req[r].name
  IN /\ req[r].pc = "applying"
     /\ engine[n].resources < NumRes
     /\ \E u \in Urls :
          engine' = [engine EXCEPT
                       ![n].resources = @ + 1,
                       ![n].endpoint = IF engine[n].resources = 0 THEN u ELSE @]
     /\ req' = Kept
     /\ UNCHANGED hvars

\* mutation: a failed up is rolled back, entry included
UpFailRollsBack(r) ==
  LET n == req[r].name
  IN /\ req[r].pc = "applying"
     /\ engine' = [engine EXCEPT ![n] = NoStack]
     /\ req' = Replied(r, req[r].calls, CreateStatus("EngineFailure"),
                       "EngineFailure", None, {})
     /\ entered' = entered \ {n}
     /\ UNCHANGED <<lastUrl, life, managed, halfGone>>

\* stack.up raises part way: the lock is released, what was created stays
UpFail(r) ==
  LET n == req[r].name
  IN /\ req[r].pc = "applying"
     /\ engine' = [engine EXCEPT ![n].lock = NoReq]
     /\ req' = Replied(r, req[r].calls, CreateStatus("EngineFailure"),
                       "EngineFailure", None, {})
     /\ UNCHANGED hvars

\* mutation: the response carries some endpoint, not the exported output
UpEndAnyUrl(r) ==
  LET n == req[r].name
      u == engine[n].endpoint
  IN /\ req[r].pc = "applying"
     /\ engine[n].resources = NumRes
     /\ engine' = [engine EXCEPT ![n].outputs = u, ![n].lock = NoReq]
     /\ \E v \in Urls :
          /\ req' = Replied(r, req[r].calls, CreateStatus("ok"), "ok", v, {})
          /\ lastUrl' = [lastUrl EXCEPT ![n] = v]
     /\ managed' = managed \cup {n}
     /\ UNCHANGED <<life, entered, halfGone>>

\* mutation: the program exports nothing
UpEndNoExport(r) ==
  LET n == req[r].name
      u == engine[n].endpoint
  IN /\ req[r].pc = "applying"
     /\ engine[n].resources = NumRes
     /\ engine' = [engine EXCEPT ![n].lock = NoReq]
     /\ req' = Replied(r, req[r].calls, CreateStatus("ok"), "ok", u, {})
     /\ lastUrl' = [lastUrl EXCEPT ![n] = u]
     /\ managed' = managed \cup {n}
     /\ UNCHANGED <<life, entered, halfGone>>

\* stack.up returns: website_url is exported and returned to the caller
UpEnd(r) ==
  LET n == req[r].name
      u == engine[n].endpoint
  IN /\ req[r].pc = "applying"
     /\ engine[n].resources = NumRes
     /\ engine' = [engine EXCEPT ![n].outputs = u, ![n].lock = NoReq]
     /\ req' = Replied(r, req[r].calls, CreateStatus("ok"), "ok", u, {})
     /\ lastUrl' = [lastUrl EXCEPT ![n] = u]
     /\ managed' = managed \cup {n}
     /\ UNCHANGED <<life, entered, halfGone>>

\* ---- get_handler ---------------------------------------------------------
\* mutation: the stack is selected, or created when it is not there
GetSelectOrCreate(r) ==
  LET n == req[r].name
  IN /\ req[r].kind = "get"
     /\ req[r].pc = "select_stack"
     /\ engine' = [engine EXCEPT ![n].exists = TRUE]
     /\ req' = Called(r, "select_stack", "outputs")
     /\ UNCHANGED hvars

GetSelect(r) ==
  LET n == req[r].name
      e == SelectErr(n)
  IN /\ req[r].kind = "get"
     /\ req[r].pc = "select_stack"
     /\ req' = IF e = "ok" THEN Called(r, "select_stack", "outputs")
               ELSE Replied(r, <<"select_stack">>, GetStatus(e), e, None, {})
     /\ UNCHANGED <<engine, hvars>>

GetOutputs(r) ==
  LET n == req[r].name
      e == OutputsErr(n)
  IN /\ req[r].pc = "outputs"
     /\ req' = Replied(r, Append(req[r].calls, "outputs"), GetStatus(e), e,
                       IF e = "ok" THEN engine[n].outputs ELSE None, {})
     /\ UNCHANGED <<engine, hvars>>

\* ---- delete_handler ------------------------------------------------------
DeleteSelect(r) ==
  LET n == req[r].name
      e == SelectErr(n)
  IN /\ req[r].kind = "delete"
     /\ req[r].pc = "select_stack"
     /\ req' = IF e = "ok" THEN Called(r, "select_stack", "destroy")
               ELSE Replied(r, <<"select_stack">>, DeleteStatus(e), e, None, {})
     /\ UNCHANGED <<engine, hvars>>

\* mutation: destroy is tried again while the stack is locked
DestroyBeginRetries(r) ==
  LET n == req[r].name
      e == UpdateErr(n)
      locked == engine[n].exists /\ engine[n].lock # NoReq
  IN /\ req[r].pc = "destroy"
     /\ IF e = "ok"
          THEN /\ engine' = [engine EXCEPT ![n].lock = r]
               /\ req' = [Called(r, "destroy", "destroying") EXCEPT ![r].busy = locked]
               /\ lastUrl' = [lastUrl EXCEPT ![n] = None]
               /\ UNCHANGED <<life, managed, entered, halfGone>>
          ELSE /\ req' = IF e = "Conflict"
                           THEN Called(r, "destroy", "destroy")
                         ELSE Replied(r, Append(req[r].calls, "destroy"),
                                      DeleteStatus(e), e, None, {})
               /\ UNCHANGED <<engine, hvars>>

\* mutation: destroy raises on a stack that has nothing left to destroy
DestroyBeginRefusesEmpty(r) ==
  LET n == req[r].name
      e == IF UpdateErr(n) = "ok" /\ engine[n].resources = 0
             THEN "EngineFailure" ELSE UpdateErr(n)
      locked == engine[n].exists /\ engine[n].lock # NoReq
  IN /\ req[r].pc = "destroy"
     /\ IF e = "ok"
          THEN /\ engine' = [engine EXCEPT ![n].lock = r]
               /\ req' = [Called(r, "destroy", "destroying") EXCEPT ![r].busy = locked]
               /\ lastUrl' = [lastUrl EXCEPT ![n] = None]
               /\ UNCHANGED <<life, managed, entered, halfGone>>
          ELSE /\ req' = [Replied(r, Append(req[r].calls, "destroy"),
                                  DeleteStatus(e), e, None, {})
                            EXCEPT ![r].busy = locked]
               /\ UNCHANGED <<engine, hvars>>

\* stack.destroy starts: the engine takes the stack's lock or raises
DestroyBegin(r) ==
  LET n == req[r].name
      e == UpdateErr(n)
      locked == engine[n].exists /\ engine[n].lock # NoReq
  IN /\ req[r].pc = "destroy"
     /\ IF e = "ok"
          THEN /\ engine' = [engine EXCEPT ![n].lock = r]
               /\ req' = [Called(r, "destroy", "destroying") EXCEPT ![r].busy = locked]
               /\ lastUrl' = [lastUrl EXCEPT ![n] = None]
               /\ UNCHANGED <<life, managed, entered, halfGone>>
          ELSE /\ req' = [Replied(r, Append(req[r].calls, "destroy"),
                                  DeleteStatus(e), e, None, {})
                            EXCEPT ![r].busy = locked]
               /\ UNCHANGED <<engine, hvars>>

\* stack.destroy deletes the next resource; the bucket goes last
DestroyStep(r) ==
  LET n == req[r].name
  IN /\ req[r].pc = "destroying"
     /\ engine[n].resources > 0
     /\ engine' = [engine EXCEPT
                     ![n].resources = @ - 1,
                     ![n].endpoint = IF engine[n].resources = 1 THEN None ELSE @]
     /\ req' = Kept
     /\ UNCHANGED hvars

\* mutation: the entry is removed whether or not destroy went through
DestroyFailRemoves(r) ==
  LET n == req[r].name
  IN /\ req[r].pc = "destroying"
     /\ engine[n].resources > 0
     /\ engine' = [engine EXCEPT ![n] = NoStack]
     /\ req' = Replied(r, Append(req[r].calls, "remove_stack"),
                       DeleteStatus("EngineFailure"), "EngineFailure", None, {})
     /\ halfGone' = halfGone \cup {n}
     /\ entered' = entered \ {n}
     /\ UNCHANGED <<lastUrl, life, managed>>

\* stack.destroy raises part way: the lock is released, what is left stays
DestroyFail(r) ==
  LET n == req[r].name
  IN /\ req[r].pc = "destroying"
     /\ engine[n].resources > 0
     /\ engine' = [engine EXCEPT ![n].lock = NoReq]
     /\ req' = Replied(r, req[r].calls, DeleteStatus("EngineFailure"),
                       "EngineFailure", None, {})
     /\ halfGone' = halfGone \cup {n}
     /\ UNCHANGED <<lastUrl, life, managed, entered>>

\* stack.destroy returns: nothing is left, the outputs are gone
DestroyEnd(r) ==
  LET n == req[r].name
  IN /\ req[r].pc = "destroying"
     /\ engine[n].resources = 0
     /\ engine' = [engine EXCEPT ![n].outputs = None, ![n].lock = NoReq]
     /\ req' = [Kept EXCEPT ![r].pc = "remove_stack"]
     /\ UNCHANGED hvars

\* mutation: success is reported without removing the entry
RemoveStackKeepsEntry(r) ==
  LET n == req[r].name
      e == RemoveErr(n)
  IN /\ req[r].pc = "remove_stack"
     /\ req' = Replied(r, Append(req[r].calls, "remove_stack"),
                       DeleteStatus(e), e, None, {})
     /\ IF e = "ok"
          THEN /\ lastUrl' = [lastUrl EXCEPT ![n] = None]
               /\ life' = [life EXCEPT ![n] = "deleted"]
               /\ managed' = managed \ {n}
               /\ UNCHANGED <<engine, entered, halfGone>>
          ELSE UNCHANGED <<engine, hvars>>

\* stack.workspace.remove_stack and the success response
RemoveStack(r) ==
  LET n == req[r].name
      e == RemoveErr(n)
  IN /\ req[r].pc = "remove_stack"
     /\ req' = Replied(r, Append(req[r].calls, "remove_stack"),
                       DeleteStatus(e), e, None, {})
     /\ IF e = "ok"
          THEN /\ engine' = [engine EXCEPT ![n] = NoStack]
               /\ lastUrl' = [lastUrl EXCEPT ![n] = None]
               /\ life' = [life EXCEPT ![n] = "deleted"]
               /\ managed' = managed \ {n}
               /\ entered' = entered \ {n}
               /\ UNCHANGED halfGone
          ELSE UNCHANGED <<engine, hvars>>

\* The controller process dies while request r is between two of its engine
\* calls and no request is inside up or destroy: every request in flight dies
\* with it and never answers, the engine keeps what it has.
Crash(r) ==
  /\ req[r].pc \in {"set_config", "up", "outputs", "destroy", "remove_stack"}
  /\ \A q \in Reqs : req[q].pc \notin {"applying", "destroying"}
  /\ req' = [q \in Reqs |->
               IF Running(q)
                 THEN [IdleReq EXCEPT !.kind = req[q].kind, !.name = req[q].name,
                                      !.calls = req[q].calls, !.pc = "done",
                                      !.err = "crashed", !.pre = engine]
               ELSE IdleReq]
  /\ life' = [n \in Names |->
                IF /\ \E q \in Reqs : /\ req[q].kind = "delete"
                                      /\ req[q].pc = "remove_stack"
                                      /\ req[q].name = n
                   /\ engine[n].exists
                   /\ engine[n].resources = 0
                   /\ engine[n].lock = NoReq
                  THEN "torn"
                ELSE life[n]]
  /\ UNCHANGED <<engine, lastUrl, managed, entered, halfGone>>

\* a request arrives while no other is being served
SeqStart(r, k, n) ==
  /\ \A q \in Reqs : ~Running(q)
  /\ Start(r, k, n)

SeqStartList(r) ==
  /\ \A q \in Reqs : ~Running(q)
  /\ StartList(r)

\* what a request in flight can do next
Serve(r) ==
  \/ ListStacks(r)
  \/ CreateStack(r)
  \/ SetConfig(r)
  \/ UpBegin(r)
  \/ UpApply(r)
  \/ UpFail(r)
  \/ UpEnd(r)
  \/ GetSelect(r)
  \/ GetOutputs(r)
  \/ DeleteSelect(r)
  \/ DestroyBegin(r)
  \/ DestroyStep(r)
  \/ DestroyFail(r)
  \/ DestroyEnd(r)
  \/ RemoveStack(r)

\* Requests for one name and list requests, served concurrently.
Next ==
  \/ \E r \in Reqs, k \in Kinds \ {"list"}, n \in Contended : Start(r, k, n)
  \/ \E r \in Reqs : StartList(r)
  \/ \E r \in Reqs : Serve(r)
  \/ \E r \in Reqs : Crash(r)

Spec == Init /\ [][Next]_vars

\* Requests for every name and list requests, served one after the other by
\* a controller that stays up.
NextSeq ==
  \/ \E r \in Reqs, k \in Kinds \ {"list"}, n \in Names : SeqStart(r, k, n)
  \/ \E r \in Reqs : SeqStartList(r)
  \/ \E r \in Reqs : Serve(r)

SpecSeq == Init /\ [][NextSeq]_vars

\* a request for name n arrives while no list and no other request for n is
\* being served
IsoStart(r, k, n) ==
  /\ \A q \in Reqs : Running(q) => (req[q].kind # "list" /\ req[q].name # n)
  /\ Start(r, k, n)

\* Requests for different names served concurrently, the requests for one
\* name one after the other and a list on its own, by a controller that
\* stays up.
NextIso ==
  \/ \E r \in Reqs, k \in Kinds \ {"list"}, n \in Names : IsoStart(r, k, n)
  \/ \E r \in Reqs : SeqStartList(r)
  \/ \E r \in Reqs : Serve(r)

SpecIso == Init /\ [][NextIso]_vars

\* ---- properties -----------------------------------------------------------
Answered(r, k) == Done(r) /\ req[r].kind = k /\ req[r].err # "crashed"
FullTeardown(r) ==
  /\ req[r].calls = <<"select_stack", "destroy", "remove_stack">>
  /\ req[r].pre[req[r].name].resources = 0
  /\ ~engine[req[r].name].exists

\* C1: once a create of n has returned url u, and until a delete acts on n,
\* every get of n that answers returns 200 with that same url u.
C1_GetReturnsCreatedUrl ==
  \A r \in Reqs :
    (Answered(r, "get") /\ lastUrl[req[r].name] # None)
      => (req[r].status = 200 /\ req[r].url = lastUrl[req[r].name])

C1_Witness ==
  \E r \in Reqs :
    /\ Answered(r, "get")
    /\ req[r].status = 200
    /\ req[r].url # None
    /\ req[r].url = lastUrl[req[r].name]

\* C2: a create whose create_stack finds a stack of that name answers 409
\* AlreadyExists at once and leaves the engine (outputs, configuration,
\* resources, lock of every stack) exactly as it was.
C2_SecondCreateRejected ==
  \A r \in Reqs :
    (req[r].kind = "create" /\ req[r].had)
      => /\ Done(r)
         /\ req[r].status = 409
         /\ req[r].err = "AlreadyExists"
         /\ req[r].calls = <<"create_stack">>
         /\ engine = req[r].pre

C2_Witness ==
  \E r \in Reqs :
    /\ Answered(r, "create")
    /\ req[r].had
    /\ req[r].status = 409
    /\ req[r].name \in managed
    /\ req[r].pre[req[r].name].outputs # None
    /\ req[r].pre[req[r].name].config # None

C4_OneDeleteWins ==
  \A r \in Reqs :
    /\ (Answered(r, "delete") /\ req[r].status = 200) => FullTeardown(r)
    /\ (/\ Answered(r, "delete")
        /\ req[r].seen0 /\ req[r].ovC = 0 /\ req[r].ovD = 1
        /\ req[r].err # "EngineFailure")
         => /\ req[r].peer = "ok" => req[r].status \in {404, 409}
            /\ req[r].peer = "rej" => req[r].status = 200
            /\ req[r].status \in {200, 404, 409}

C4_Witness ==
  \E r \in Reqs :
    /\ Answered(r, "delete")
    /\ req[r].seen0 /\ req[r].ovC = 0 /\ req[r].ovD = 1
    /\ req[r].peer = "rej"
    /\ req[r].status = 200

\* C5: at most one request is tearing a stack down at any time, it holds the
\* stack's lock, and no create is applying to that stack meanwhile.
Destroying(n) == {r \in Reqs : req[r].pc = "destroying" /\ req[r].name = n}
Applying(n) == {r \in Reqs : req[r].pc = "applying" /\ req[r].name = n}
C5_OneTeardownAtATime ==
  \A n \in Names :
    /\ Cardinality(Destroying(n)) <= 1
    /\ \A r \in Destroying(n) : engine[n].lock = r /\ Applying(n) = {}

C5_Witness ==
  \E r, q \in Reqs :
    /\ r # q
    /\ req[r].name = req[q].name
    /\ req[r].pc = "destroying"
    /\ req[q].kind = "delete"
    /\ req[q].pc = "destroy"
    /\ engine[req[r].name].resources > 0
    /\ engine[req[r].name].resources < NumRes

\* C6: after a delete of n has returned success and until the next
\* create_stack of n, n has no stack and every get of n answers 404; a create
\* that takes the freed name, with no other create or delete of n running
\* meanwhile, returns success unless the engine fails while applying.
C6_NameFreeAfterDelete ==
  /\ \A n \in Names : life[n] = "deleted" => ~engine[n].exists
  /\ \A r \in Reqs :
       /\ (Answered(r, "get") /\ life[req[r].name] = "deleted")
            => req[r].status = 404
       /\ (Answered(r, "create") /\ req[r].reuse /\ req[r].ovC = 0 /\ req[r].ovD = 0)
            => (req[r].status = 200 \/ req[r].err = "EngineFailure")

C6_Witness ==
  \E r \in Reqs :
    /\ Answered(r, "create")
    /\ req[r].reuse
    /\ req[r].status = 200

\* C7: a get of a name that was never created, or that was deleted and not
\* created again, answers 404 NotFound.
C7_GetUnknownIsNotFound ==
  \A r \in Reqs :
    (Answered(r, "get") /\ life[req[r].name] \in {"never", "deleted"})
      => (req[r].status = 404 /\ req[r].err = "NotFound" /\ req[r].url = None)

C7_Witness ==
  \E r \in Reqs :
    /\ Answered(r, "get")
    /\ life[req[r].name] = "never"
    /\ req[r].status = 404

\* C8 as stated: a list that answers while nothing else is being served
\* returns exactly the names whose create returned success and that were not
\* deleted with success since.
C8_ListIsManaged ==
  \A r \in Reqs :
    (Answered(r, "list") /\ \A q \in Reqs \ {r} : ~Running(q))
      => (req[r].status = 200 /\ req[r].ids = managed)

\* C8 amended: a list returns exactly the names that have a stack entry,
\* i.e. those whose create_stack succeeded and that were not removed since;
\* these include every name whose create returned success and that was not
\* deleted with success since.
C8_ListIsEntered ==
  \A r \in Reqs :
    Answered(r, "list")
      => (req[r].status = 200 /\ req[r].ids = entered /\ managed \subseteq req[r].ids)

C8_Witness ==
  \E r \in Reqs :
    /\ Answered(r, "list")
    /\ req[r].ids = {"a"}
    /\ managed = {"a"}
    /\ life["b"] = "deleted"

\* C9: a delete whose destroy raises part way answers 500 without calling
\* remove_stack: the stack keeps its entry and is unlocked, so that a later
\* delete can select and destroy it; a delete that then returns success has
\* done the full teardown.
C9_FailedTeardownKeepsEntry ==
  \A r \in Reqs :
    /\ (Answered(r, "delete") /\ req[r].err = "EngineFailure")
         => /\ req[r].status = 500
            /\ req[r].calls = <<"select_stack", "destroy">>
            /\ engine[req[r].name].exists
            /\ req[r].name \in entered
            /\ SelectErr(req[r].name) = "ok"
            /\ UpdateErr(req[r].name) = "ok"
    /\ (Answered(r, "delete") /\ req[r].name \in halfGone /\ req[r].status = 200)
         => FullTeardown(r)

C9_Witness ==
  \E r \in Reqs :
    /\ Answered(r, "delete")
    /\ req[r].name \in halfGone
    /\ req[r].status = 200
    /\ ~engine[req[r].name].exists

\* C10: a delete whose destroy call finds the stack locked by a running
\* update or destroy answers 409 Conflict in that same step, having called
\* select_stack and destroy once each and changed nothing in the engine.
C10_ConflictSurfacedAtOnce ==
  \A r \in Reqs :
    (req[r].kind = "delete" /\ req[r].busy)
      => /\ Done(r)
         /\ req[r].status = 409
         /\ req[r].err = "Conflict"
         /\ req[r].calls = <<"select_stack", "destroy">>
         /\ engine = req[r].pre

C10_Witness ==
  \E r, q \in Reqs :
    /\ Answered(r, "delete")
    /\ req[r].busy
    /\ req[r].status = 409
    /\ engine[req[r].name].lock = q
    /\ req[q].pc \in {"applying", "destroying"}

\* ---- error mapping ---------------------------------------------------------
\* the error kinds of the taxonomy
ErrKinds == {"AlreadyExists", "NotFound", "Conflict", "EngineFailure"}

\* the kinds each handler tells apart: its named except clauses, and the
\* catch-all
Documented(k) ==
  IF k = "create" THEN {"AlreadyExists", "EngineFailure"}
  ELSE IF k = "get" THEN {"NotFound", "EngineFailure"}
  ELSE IF k = "delete" THEN {"NotFound", "Conflict", "EngineFailure"}
  ELSE {"EngineFailure"}

\* the status handler k answers error err with
StatusOf(k, err) ==
  IF k = "create" THEN CreateStatus(err)
  ELSE IF k = "get" THEN GetStatus(err)
  ELSE IF k = "delete" THEN DeleteStatus(err)
  ELSE ListStatus(err)

\* C11 as stated: a response that reports an error kind of the taxonomy is
\* not a success, and its status is the status of no other error kind in any
\* handler that tells that other kind apart.
C11_DistinctStatusPerKind ==
  \A r \in Reqs :
    (Done(r) /\ req[r].err \in Documented(req[r].kind))
      => /\ req[r].status # 200
         /\ \A k \in Kinds : \A e \in Documented(k) \ {req[r].err} :
              StatusOf(k, e) # req[r].status

\* C11 amended: within one handler the error kinds it tells apart have
\* pairwise distinct statuses, none of them a success: 409 is AlreadyExists
\* in create and Conflict in delete, 404 is NotFound in get and delete, and
\* every other error is 500; a response is 200 only if no engine call raised.
C11_StatusPerHandler ==
  /\ \A k \in Kinds : \A e1, e2 \in Documented(k) :
       e1 # e2 => StatusOf(k, e1) # StatusOf(k, e2)
  /\ \A r \in Reqs :
       (Done(r) /\ req[r].err # "crashed")
         => /\ req[r].status \in {200, 404, 409, 500}
            /\ req[r].status = 200 <=> req[r].err = "ok"
            /\ req[r].status = 409 <=>
                 \/ (req[r].kind = "create" /\ req[r].err = "AlreadyExists")
                 \/ (req[r].kind = "delete" /\ req[r].err = "Conflict")
            /\ req[r].status = 404 <=>
                 (req[r].kind \in {"get", "delete"} /\ req[r].err = "NotFound")

C11_Witness ==
  \E r \in Reqs :
    /\ Answered(r, "delete")
    /\ req[r].err = "Conflict"
    /\ req[r].status = 409
    /\ req[r].calls = <<"select_stack", "destroy", "remove_stack">>

\* ---- the website_url output -------------------------------------------------
\* C12 as stated: at every state a stack has its website_url output exactly
\* when a create of its name returned success and no delete of it returned
\* success since.
C12_OutputIffManaged ==
  \A n \in Names : engine[n].outputs # None <=> n \in managed

\* C12 amended: a stack has its website_url output only when a create of its
\* name returned success and no delete of it returned success since; and it
\* has it, with the url that create returned, from that success until a
\* destroy of the stack starts.
C12_OutputOnlyWhileManaged ==
  \A n \in Names :
    /\ engine[n].outputs # None => (n \in managed /\ engine[n].exists)
    /\ lastUrl[n] # None => (engine[n].outputs = lastUrl[n] /\ n \in managed)

\* torn down but not removed: the output is gone, the name is not deleted,
\* and nothing is being served
C12_Witness ==
  \E n \in Names :
    /\ n \in managed
    /\ engine[n].exists
    /\ engine[n].outputs = None
    /\ engine[n].resources = 0
    /\ \A q \in Reqs : ~Running(q)

\* ---- reads ------------------------------------------------------------------
\* a step of a get or list request r: it is dispatched, makes an engine
\* call, or answers
ReadStep(r) ==
  /\ req'[r].kind \in {"get", "list"}
  /\ req'[r].pc # req[r].pc
  /\ req'[r].pc # "idle"

\* C13: no step of a get or list request, whatever its outcome and whatever
\* else is being served, changes the engine: the set of stacks and every
\* stack's configuration, resources, outputs and lock stay as they are.
C13_ReadsChangeNothing ==
  [][\A r \in Reqs : ReadStep(r) => engine' = engine]_vars

\* a get of an existing stack answers while another read is being served
C13_Witness ==
  \E r, q \in Reqs :
    /\ r # q
    /\ Answered(r, "get")
    /\ req[r].calls = <<"select_stack", "outputs">>
    /\ engine = req[r].pre
    /\ req[q].kind \in {"get", "list"}
    /\ Running(q)
    /\ engine[req[r].name].exists

\* ---- no retry ---------------------------------------------------------------
\* the engine calls of each handler, in the order of its code
HandlerCalls(k) ==
  IF k = "create" THEN <<"create_stack", "set_config", "up">>
  ELSE IF k = "get" THEN <<"select_stack", "outputs">>
  ELSE IF k = "delete" THEN <<"select_stack", "destroy", "remove_stack">>
  ELSE IF k = "list" THEN <<"list_stacks">>
  ELSE <<>>

IsPrefix(s, t) ==
  /\ Len(s) <= Len(t)
  /\ \A i \in 1..Len(s) : s[i] = t[i]

\* C14: the engine calls a request has made are, at every moment, the first
\* calls of its handler in order, each made once; a request answers success
\* only after all of them, and a request whose call raised answers with the
\* status of that error, the raising call being its last.
C14_NoRetry ==
  \A r \in Reqs :
    /\ IsPrefix(req[r].calls, HandlerCalls(req[r].kind))
    /\ (Done(r) /\ req[r].status = 200) => req[r].calls = HandlerCalls(req[r].kind)
    /\ (Done(r) /\ req[r].err \notin {"ok", "crashed"})
         => /\ req[r].calls # <<>>
            /\ req[r].status = StatusOf(req[r].kind, req[r].err)
            /\ req[r].status # 200

\* the up of a create found the stack locked by a delete: answered at once
C14_Witness ==
  \E r \in Reqs :
    /\ Answered(r, "create")
    /\ req[r].err = "Conflict"
    /\ req[r].status = 500
    /\ req[r].calls = <<"create_stack", "set_config", "up">>

\* ---- crash in the middle of a delete ----------------------------------------
\* C15: when the controller dies between destroy and remove_stack of a
\* delete, that step changes nothing in the engine; the stack stays as
\* destroy left it (entry present, no resources, no output) until an up or a
\* removal; and a delete issued for the name in that condition, with no
\* create or other delete of the name running meanwhile, returns success
\* after the full teardown, the name being free again.
C15_RedeleteAfterCrash ==
  /\ \A r \in Reqs :
       (Done(r) /\ req[r].err = "crashed") => engine = req[r].pre
  /\ \A n \in Names :
       life[n] = "torn"
         => /\ engine[n].exists
            /\ engine[n].resources = 0
            /\ engine[n].outputs = None
  /\ \A r \in Reqs :
       (Answered(r, "delete") /\ req[r].redo /\ req[r].ovC = 0 /\ req[r].ovD = 0)
         => /\ req[r].status = 200
            /\ FullTeardown(r)
            /\ life[req[r].name] = "deleted"
            /\ CreateStackErr(req[r].name) = "ok"

C15_Witness ==
  \E r \in Reqs :
    /\ Answered(r, "delete")
    /\ req[r].redo
    /\ req[r].status = 200
    /\ req[r].name \in Contended
    /\ ~engine[req[r].name].exists

\* ---- a create whose apply fails ---------------------------------------------
\* C16: a create whose up raises after create_stack succeeded answers 500
\* and leaves the entry: the name is listed and create_stack refuses it.  The
\* names with an entry are those whose create_stack succeeded and that no
\* delete removed since; every list returns them, and every create that
\* meets one of them whose create did not succeed is rejected 409
\* AlreadyExists at create_stack.
C16_FailedCreateKeepsEntry ==
  /\ entered = ListedNames
  /\ \A r \in Reqs :
       /\ (Answered(r, "create") /\ req[r].err = "EngineFailure")
            => /\ req[r].status = 500
               /\ req[r].calls = <<"create_stack", "set_config", "up">>
               /\ req[r].name \in ListedNames
               /\ CreateStackErr(req[r].name) = "AlreadyExists"
       /\ Answered(r, "list") => entered \subseteq req[r].ids
       /\ (Answered(r, "create") /\ req[r].had /\ req[r].name \notin managed)
            => /\ req[r].status = 409
               /\ req[r].err = "AlreadyExists"
               /\ req[r].name \in entered

\* a create is rejected for a name whose only create failed part way
\* through its apply, nothing else being served
C16_Witness ==
  \E r \in Reqs :
    /\ Answered(r, "create")
    /\ req[r].status = 409
    /\ req[r].name \notin managed
    /\ req[r].name \notin halfGone
    /\ engine[req[r].name].resources > 0
    /\ engine[req[r].name].resources < NumRes
    /\ \A q \in Reqs \ {r} : ~Running(q)

\* ---- get of a stack without output -------------------------------------------
\* C17: a get whose answering call finds the stack present but without a
\* website_url output answers 500, with no url; a get answers 404 exactly
\* when the engine has no stack of that name at its answering call.
C17_GetWithoutOutputFails ==
  \A r \in Reqs :
    Answered(r, "get")
      => LET was == req[r].pre[req[r].name]
         IN /\ (was.exists /\ was.outputs = None)
                 => /\ req[r].status = 500
                    /\ req[r].err = "KeyError"
                    /\ req[r].url = None
                    /\ req[r].calls = <<"select_stack", "outputs">>
            /\ req[r].status = 404 <=> ~was.exists
            /\ req[r].status = 200 <=> (was.exists /\ was.outputs # None)

\* a get of a name whose create failed part way through its apply
C17_Witness ==
  \E r \in Reqs :
    /\ Answered(r, "get")
    /\ req[r].status = 500
    /\ req[r].name \notin managed
    /\ req[r].name \notin halfGone
    /\ engine[req[r].name].resources > 0
    /\ \A q \in Reqs \ {r} : ~Running(q)

\* ---- no orphaned resources ---------------------------------------------------
\* C18: at every state resources exist only for a stack that has its entry,
\* and so does a lock; an up applies only to a stack that has its entry and
\* whose lock it holds; and a delete that removed the entry did so on a
\* stack that had no resources and was not locked.
C18_NoOrphans ==
  /\ \A n \in Names :
       /\ engine[n].resources > 0 => engine[n].exists
       /\ engine[n].lock # NoReq
            => /\ engine[n].exists
               /\ req[engine[n].lock].name = n
               /\ req[engine[n].lock].pc \in {"applying", "destroying"}
  /\ \A r \in Reqs :
       /\ req[r].pc \in {"applying", "destroying"}
            => (engine[req[r].name].exists /\ engine[req[r].name].lock = r)
       /\ (Answered(r, "delete") /\ req[r].status = 200)
            => /\ req[r].pre[req[r].name].exists
               /\ req[r].pre[req[r].name].resources = 0
               /\ req[r].pre[req[r].name].lock = NoReq
               /\ ~engine[req[r].name].exists

\* the up of a racing create got in between destroy and remove_stack of a
\* delete: remove_stack is refused and the resources keep their entry
C18_Witness ==
  \E r \in Reqs :
    /\ Answered(r, "delete")
    /\ req[r].err = "StackHasResources"
    /\ req[r].status = 500
    /\ engine[req[r].name].exists
    /\ engine[req[r].name].resources > 0

\* ---- isolation by name ---------------------------------------------------------
\* a step of a create, get or delete request r: it is dispatched, makes an
\* engine call, or answers
NameStep(r) ==
  /\ req'[r].kind \in {"create", "get", "delete"}
  /\ req'[r].pc # req[r].pc
  /\ req'[r].pc # "idle"

\* what the answer of a create, get or delete is explained by: the stack of
\* its own name as it was at the answering call
OwnStackExplains(r) ==
  LET was == req[r].pre[req[r].name]
  IN /\ Answered(r, "create")
          => /\ req[r].status = 409 <=> req[r].had
             /\ req[r].had => was.exists
             /\ req[r].status = 200 => req[r].url = engine[req[r].name].outputs
     /\ Answered(r, "get")
          => /\ req[r].status = 404 <=> ~was.exists
             /\ req[r].status = 200 <=> (was.exists /\ was.outputs # None)
             /\ req[r].status = 200 => req[r].url = was.outputs
     /\ Answered(r, "delete")
          => /\ req[r].status = 404 <=> ~was.exists
             /\ req[r].status = 409 => was.lock # NoReq
             /\ req[r].status = 200 => was.resources = 0

\* C19: no step of a create, get or delete request for a name changes the
\* stack of any other name (existence, configuration, resources, outputs,
\* lock), whatever is being served for the other names; and its answer is
\* the one the stack of its own name explains.
C19_IsolatedByName ==
  /\ [](\A r \in Reqs : OwnStackExplains(r))
  /\ [][\A r \in Reqs :
          NameStep(r) => \A m \in Names \ {req'[r].name} : engine'[m] = engine[m]]_vars

\* a create returns success for one name while a delete is tearing down the
\* stack of another
C19_Witness ==
  \E r, q \in Reqs :
    /\ Answered(r, "create")
    /\ req[r].status = 200
    /\ req[q].kind = "delete"
    /\ req[q].pc = "destroying"
    /\ req[q].name # req[r].name
    /\ engine[req[q].name].resources > 0
    /\ engine[req[q].name].resources < NumRes

====
